---------------------------- MODULE Spec2Model ----------------------------
(***************************************************************************)
(* k8s-confsec-reloader: change filter, fingerprint, dependency index and  *)
(* reconciliation driver.                                                  *)
(*                                                                         *)
(* Go strings and byte slices are sequences of byte values (the ASCII code *)
(* of each character), so that sorting, joining, splitting, base64 and the *)
(* FNV hash are computed as the code computes them.                        *)
(***************************************************************************)
EXTENDS Integers, Sequences, FiniteSets, TLC

(***************************************************************************)
(* Strings                                                                 *)
(***************************************************************************)
Empty == << >>
Equals == <<61>>                      \* "="
Semicolon == <<59>>                   \* ";"
Comma == <<44>>                       \* ","
StrTrue == <<116, 114, 117, 101>>     \* "true"
StrFalse == <<102, 97, 108, 115, 101>> \* "false"

\* Go's string comparison a < b: bytewise lexicographic
RECURSIVE StrLess(_, _)
StrLess(a, b) ==
    IF b = << >> THEN FALSE
    ELSE IF a = << >> THEN TRUE
    ELSE IF Head(a) # Head(b) THEN Head(a) < Head(b)
    ELSE StrLess(Tail(a), Tail(b))

\* insert s into the sorted list l
RECURSIVE SortInsert(_, _)
SortInsert(s, l) ==
    IF l = << >> THEN <<s>>
    ELSE IF StrLess(Head(l), s) THEN <<Head(l)>> \o SortInsert(s, Tail(l))
    ELSE <<s>> \o l

\* sort.Strings left out: the values stay in the order they were appended
SortStringsSkipped(l) == l

\* sort.Strings(values)
RECURSIVE SortStrings(_)
SortStrings(l) ==
    IF l = << >> THEN << >> ELSE SortInsert(Head(l), SortStrings(Tail(l)))

\* strings.Join(values, sep)
RECURSIVE StringsJoin(_, _)
StringsJoin(l, sep) ==
    IF l = << >> THEN << >>
    ELSE IF Len(l) = 1 THEN Head(l)
    ELSE Head(l) \o sep \o StringsJoin(Tail(l), sep)

\* strings.Split(s, ","): the fields of s between commas; Split("") is [""]
RECURSIVE SplitFrom(_, _)
SplitFrom(s, cur) ==
    IF s = << >> THEN <<cur>>
    ELSE IF <<Head(s)>> = Comma THEN <<cur>> \o SplitFrom(Tail(s), << >>)
    ELSE SplitFrom(Tail(s), Append(cur, Head(s)))

StringsSplit(s) == SplitFrom(s, << >>)

(***************************************************************************)
(* encoding/base64 StdEncoding.EncodeToString                              *)
(***************************************************************************)
Base64Char(i) ==
    IF i < 26 THEN 65 + i
    ELSE IF i < 52 THEN 97 + (i - 26)
    ELSE IF i < 62 THEN 48 + (i - 52)
    ELSE IF i = 62 THEN 43
    ELSE 47

RECURSIVE Base64Encode(_)
Base64Encode(b) ==
    IF b = << >> THEN << >>
    ELSE IF Len(b) = 1 THEN
        LET n == b[1] * 65536
        IN  <<Base64Char(n \div 262144), Base64Char((n \div 4096) % 64), 61, 61>>
    ELSE IF Len(b) = 2 THEN
        LET n == b[1] * 65536 + b[2] * 256
        IN  <<Base64Char(n \div 262144), Base64Char((n \div 4096) % 64),
              Base64Char((n \div 64) % 64), 61>>
    ELSE
        LET n == b[1] * 65536 + b[2] * 256 + b[3]
        IN  <<Base64Char(n \div 262144), Base64Char((n \div 4096) % 64),
              Base64Char((n \div 64) % 64), Base64Char(n % 64)>>
            \o Base64Encode(SubSeq(b, 4, Len(b)))

(***************************************************************************)
(* hash/fnv New64a: a 64-bit word is 8 bytes, least significant first      *)
(***************************************************************************)
FnvOffset64 == <<37, 35, 34, 132, 228, 156, 242, 203>>   \* 0xcbf29ce484222325
FnvPrimeLow == 435                   \* prime64 = 2^40 + 0x1b3

\* one bit of x XOR y, at weight p
XorBit(x, y, p) == (((x \div p) + (y \div p)) % 2) * p

\* x XOR y on bytes
Xor8(x, y) ==
    XorBit(x, y, 1) + XorBit(x, y, 2) + XorBit(x, y, 4) + XorBit(x, y, 8)
    + XorBit(x, y, 16) + XorBit(x, y, 32) + XorBit(x, y, 64) + XorBit(x, y, 128)

\* h * prime64 mod 2^64: h * 0x1b3 byte by byte with carry, plus h shifted left
\* by 40 bits
FnvMul(h) ==
    LET t1 == h[1] * FnvPrimeLow
        t2 == (h[2] * FnvPrimeLow) + (t1 \div 256)
        t3 == (h[3] * FnvPrimeLow) + (t2 \div 256)
        t4 == (h[4] * FnvPrimeLow) + (t3 \div 256)
        t5 == (h[5] * FnvPrimeLow) + (t4 \div 256)
        t6 == (h[6] * FnvPrimeLow) + (t5 \div 256)
        t7 == (h[7] * FnvPrimeLow) + (t6 \div 256)
        t8 == (h[8] * FnvPrimeLow) + (t7 \div 256)
        s6 == (t6 % 256) + h[1]
        s7 == (t7 % 256) + h[2] + (s6 \div 256)
        s8 == (t8 % 256) + h[3] + (s7 \div 256)
    IN  <<t1 % 256, t2 % 256, t3 % 256, t4 % 256, t5 % 256,
          s6 % 256, s7 % 256, s8 % 256>>

\* one round of the loop of Write: hash ^= c; hash *= prime64
FnvRound(h, c) == FnvMul(<<Xor8(h[1], c)>> \o Tail(h))

\* the loop of Write over data, from the running sum h (a word of 8 bytes)
RECURSIVE Fnv64a(_, _)
Fnv64a(h, data) ==
    IF data = << >> \/ Len(h) # 8 THEN h
    ELSE Fnv64a(FnvRound(h, Head(data)), Tail(data))

HexDigit(d) == IF d < 10 THEN 48 + d ELSE 87 + d

\* the hex digits of a word, most significant first
RECURSIVE HexDigits(_)
HexDigits(w) ==
    IF w = << >> THEN << >>
    ELSE HexDigits(Tail(w)) \o <<HexDigit(Head(w) \div 16), HexDigit(Head(w) % 16)>>

RECURSIVE StripZeros(_)
StripZeros(s) ==
    IF Len(s) > 1 /\ Head(s) = 48 THEN StripZeros(Tail(s)) ELSE s

\* fmt.Sprintf("%x", hasher.Sum64())
generateFNVHash(data) == StripZeros(HexDigits(Fnv64a(FnvOffset64, data)))


(***************************************************************************)
(* const.go                                                                *)
(***************************************************************************)
WatchAnnotation == "k8s-confsec-reloader.io/watch"
KeyWatchAnnotation == "k8s-confsec-reloader.io/keys-to-watch"
ReloadTimestampAnnotation == "k8s-confsec-reloader.io/reload-timestamp"
ConfigMapIndexKey == "index.deployment.by.configmap"
SecretIndexKey == "index.deployment.by.secret"

VARIABLES
    constRev,   \* which of the two const.go revisions of parseWatch is built
    event,      \* the last event handed to a predicate, and its verdict
    hashed,     \* the last two fingerprint computations
    indexed,    \* the last workload handed to an index function, and the slice
    objects,    \* the config maps and secrets in the API server, by kind
    deployments, \* the deployments in the API server, by name
    queue,      \* the work queue of each controller: requests to reconcile
    rec,        \* each controller's Reconcile call: position, locals, calls made
    clock,      \* the wall clock, in ticks
    edits,      \* how many edits other clients have made to deployments
    events      \* the update events handed to the predicates so far, with verdicts

driverVars == <<objects, deployments, queue, rec, clock, edits, events>>

vars == <<constRev, event, hashed, indexed, objects, deployments, queue, rec, clock,
          edits, events>>

\* obj.GetAnnotations()[name]: a missing key reads as ""
GetAnnotation(obj, name) ==
    IF name \in DOMAIN obj.Annotations THEN obj.Annotations[name] ELSE Empty

\* const.go, first revision: anything but "false" is watched
parseWatchNotFalse(obj) == GetAnnotation(obj, WatchAnnotation) # StrFalse

\* const.go, second revision: only "" and "true" are watched
parseWatchEmptyOrTrue(obj) ==
    LET watch == GetAnnotation(obj, WatchAnnotation)
    IN  IF watch = Empty \/ watch = StrTrue THEN TRUE ELSE FALSE

\* parseWatch(obj client.Object), as built
parseWatch(obj, rev) ==
    IF rev = 1 THEN parseWatchNotFalse(obj) ELSE parseWatchEmptyOrTrue(obj)

\* parseKeysToWatch(obj client.Object), the same in both revisions
parseKeysToWatch(obj) ==
    LET keys == GetAnnotation(obj, KeyWatchAnnotation)
    IN  IF keys = Empty THEN << >> ELSE StringsSplit(keys)

\* parseWatch without the exists test: a missing annotation reads as ""
parseWatchConfigMapNoDefault(cm) == GetAnnotation(cm, WatchAnnotation) = StrTrue

\* configmap_controller.go: parseWatch(cm *corev1.ConfigMap)
parseWatchConfigMap(cm) ==
    IF WatchAnnotation \in DOMAIN cm.Annotations
    THEN cm.Annotations[WatchAnnotation] = StrTrue
    ELSE TRUE

\* configmap_controller.go: parseKeysToWatch(cm *corev1.ConfigMap)
parseKeysToWatchConfigMap(cm) ==
    IF KeyWatchAnnotation \in DOMAIN cm.Annotations
    THEN StringsSplit(cm.Annotations[KeyWatchAnnotation])
    ELSE << >>

(***************************************************************************)
(* Fingerprint                                                             *)
(***************************************************************************)
\* the orders in which a range loop may visit the keys of map m
Orders(m) ==
    {o \in [1..Cardinality(DOMAIN m) -> DOMAIN m] :
        \A i, j \in DOMAIN o : i # j => o[i] # o[j]}

\* the keysToWatch branch: Data then BinaryData, key by key
RECURSIVE WatchedValues(_, _)
WatchedValues(configmap, keysToWatch) ==
    IF keysToWatch = << >> THEN << >>
    ELSE LET key == Head(keysToWatch)
         IN  (IF key \in DOMAIN configmap.Data
              THEN <<key \o Equals \o configmap.Data[key]>> ELSE << >>)
             \o (IF key \in DOMAIN configmap.BinaryData
                 THEN <<key \o Equals \o Base64Encode(configmap.BinaryData[key])>>
                 ELSE << >>)
             \o WatchedValues(configmap, Tail(keysToWatch))

\* the watch-all branch: all of Data, then all of BinaryData, in map order
AllValues(configmap, dataOrder, binOrder) ==
    [i \in 1..Len(dataOrder) |->
        dataOrder[i] \o Equals \o configmap.Data[dataOrder[i]]]
    \o [i \in 1..Len(binOrder) |->
        binOrder[i] \o Equals \o Base64Encode(configmap.BinaryData[binOrder[i]])]

\* the values slice built from Data alone, BinaryData forgotten
HashValuesTextOnly(configmap, keysToWatch, dataOrder, binOrder) ==
    IF Len(keysToWatch) > 0
    THEN WatchedValues([configmap EXCEPT !.BinaryData = << >>], keysToWatch)
    ELSE AllValues(configmap, dataOrder, << >>)

\* the values slice before sorting
HashValues(configmap, keysToWatch, dataOrder, binOrder) ==
    IF Len(keysToWatch) > 0
    THEN WatchedValues(configmap, keysToWatch)
    ELSE AllValues(configmap, dataOrder, binOrder)

\* the string that is hashed
CanonicalString(values) == StringsJoin(SortStrings(values), Semicolon)

GetConfigMapHash(configmap, keysToWatch, dataOrder, binOrder) ==
    generateFNVHash(
        CanonicalString(HashValues(configmap, keysToWatch, dataOrder, binOrder)))

\* missing from the sources; the fingerprint of section 4.1 over a secret
GetSecretHash(secret, keysToWatch, dataOrder, binOrder) ==
    generateFNVHash(
        CanonicalString(HashValues(secret, keysToWatch, dataOrder, binOrder)))

(***************************************************************************)
(* Change filter: getConfigMapFilter, getSecretFilter                      *)
(* An order is <<dataOrder, binOrder>>, the map iteration orders of one    *)
(* hash computation.                                                       *)
(***************************************************************************)
getConfigMapFilterCreateFunc(obj) == FALSE

getConfigMapFilterDeleteFunc(obj) == FALSE

getConfigMapFilterUpdateFunc(oldCm, newCm, oldOrder, newOrder) ==
    IF ~parseWatchConfigMap(newCm) THEN FALSE
    ELSE LET keysToWatch == parseKeysToWatchConfigMap(newCm)
             oldHash == GetConfigMapHash(oldCm, keysToWatch, oldOrder[1], oldOrder[2])
             newHash == GetConfigMapHash(newCm, keysToWatch, newOrder[1], newOrder[2])
         IN  oldHash # newHash

getSecretFilterCreateFunc(obj) == FALSE

\* a delete predicate that lets deletions of tracked secrets through
getSecretFilterDeleteFuncTracked(obj) == parseWatchNotFalse(obj)

getSecretFilterDeleteFunc(obj) == FALSE

\* an update predicate that hashes each object under its own keys-to-watch
getSecretFilterUpdateFuncOwnKeys(oldSecret, newSecret, oldOrder, newOrder, rev) ==
    IF ~parseWatch(newSecret, rev) THEN FALSE
    ELSE GetSecretHash(oldSecret, parseKeysToWatch(oldSecret), oldOrder[1], oldOrder[2])
            # GetSecretHash(newSecret, parseKeysToWatch(newSecret),
                            newOrder[1], newOrder[2])

getSecretFilterUpdateFunc(oldSecret, newSecret, oldOrder, newOrder, rev) ==
    IF ~parseWatch(newSecret, rev) THEN FALSE
    ELSE LET keysToWatch == parseKeysToWatch(newSecret)
             oldHash == GetSecretHash(oldSecret, keysToWatch, oldOrder[1], oldOrder[2])
             newHash == GetSecretHash(newSecret, keysToWatch, newOrder[1], newOrder[2])
         IN  oldHash # newHash

Kinds == {"ConfigMap", "Secret"}

NoObject == [Data |-> << >>, BinaryData |-> << >>, Annotations |-> << >>]

NoEvent ==
    [type |-> "none", kind |-> "ConfigMap", old |-> NoObject, new |-> NoObject,
     state |-> "filtered", admitted |-> FALSE]

\* an event the informer is about to hand to the predicate
PendingEvent(type, kind, old, new) ==
    [type |-> type, kind |-> kind, old |-> old, new |-> new,
     state |-> "pending", admitted |-> FALSE]

\* the map iteration orders one hash computation over obj may see
ObjectOrders(obj) == Orders(obj.Data) \X Orders(obj.BinaryData)

\* an update of an object reaches the predicate of its kind's controller
UpdateEvent ==
    /\ event.state = "pending"
    /\ event.type = "update"
    /\ \E oldOrder \in ObjectOrders(event.old), newOrder \in ObjectOrders(event.new) :
        event' = [event EXCEPT
                    !.state = "filtered",
                    !.admitted =
                        IF event.kind = "ConfigMap"
                        THEN getConfigMapFilterUpdateFunc(event.old, event.new,
                                                          oldOrder, newOrder)
                        ELSE getSecretFilterUpdateFunc(event.old, event.new,
                                                       oldOrder, newOrder, constRev)]
    /\ UNCHANGED <<constRev, hashed, indexed>>
    /\ UNCHANGED driverVars

CreateEvent ==
    /\ event.state = "pending"
    /\ event.type = "create"
    /\ event' = [event EXCEPT
                    !.state = "filtered",
                    !.admitted =
                        IF event.kind = "ConfigMap"
                        THEN getConfigMapFilterCreateFunc(event.new)
                        ELSE getSecretFilterCreateFunc(event.new)]
    /\ UNCHANGED <<constRev, hashed, indexed>>
    /\ UNCHANGED driverVars

DeleteEvent ==
    /\ event.state = "pending"
    /\ event.type = "delete"
    /\ event' = [event EXCEPT
                    !.state = "filtered",
                    !.admitted =
                        IF event.kind = "ConfigMap"
                        THEN getConfigMapFilterDeleteFunc(event.old)
                        ELSE getSecretFilterDeleteFunc(event.old)]
    /\ UNCHANGED <<constRev, hashed, indexed>>
    /\ UNCHANGED driverVars

(***************************************************************************)
(* Inputs of the filter                                                    *)
(***************************************************************************)
MaxBinLen == 2

KeyA == <<97>>
KeyB == <<98>>
Keys == {KeyA, KeyB}

\* "x", "=" and "x;b=x": values may hold the characters the fingerprint joins with
TextValues == {<<120>>, <<61>>, <<120, 59, 98, 61, 120>>}

RECURSIVE BytesUpTo(_)
BytesUpTo(n) ==
    IF n = 0 THEN {} ELSE {[i \in 1..n |-> 97]} \cup BytesUpTo(n - 1)

BinaryValues == BytesUpTo(MaxBinLen)

Maps(K, V) == UNION {[S -> V] : S \in SUBSET K}

\* the API server rejects a key that is in both data and binaryData
Contents ==
    {c \in [Data : Maps(Keys, TextValues), BinaryData : Maps(Keys, BinaryValues)] :
        DOMAIN c.Data \cap DOMAIN c.BinaryData = {}}

\* the filter is driven with binary values under one key only
FilterContents == {c \in Contents : DOMAIN c.BinaryData \subseteq {KeyB}}

Absent == <<-1>>
WatchValues == {Absent, Empty, StrTrue, StrFalse, <<121, 101, 115>>}
KeysValues == {Absent, Empty, KeyA, KeyB, KeyA \o Comma \o KeyB, KeyB \o Comma \o KeyA}

MakeAnnotations(watch, keys) ==
    [n \in (IF watch = Absent THEN {} ELSE {WatchAnnotation})
           \cup (IF keys = Absent THEN {} ELSE {KeyWatchAnnotation}) |->
        IF n = WatchAnnotation THEN watch ELSE keys]

MakeObject(c, annotations) ==
    [Data |-> c.Data, BinaryData |-> c.BinaryData, Annotations |-> annotations]

\* the annotations of the old object of an update: none, or a policy that the
\* new object has dropped
OldAnnotations == {MakeAnnotations(Absent, Absent), MakeAnnotations(StrFalse, KeyA)}

(***************************************************************************)
(* Fingerprint of two inputs: GetConfigMapHash applied to each             *)
(***************************************************************************)
HashKeyLists ==
    {<< >>, <<KeyA>>, <<KeyB>>, <<KeyA, KeyB>>, <<KeyB, KeyA>>, <<KeyA, KeyA>>}

HashOf(in) ==
    GetConfigMapHash(in.configmap, in.keysToWatch, in.order[1], in.order[2])

ComputeHashes ==
    /\ hashed.state = "pending"
    /\ hashed' = [hashed EXCEPT !.state = "done",
                                !.hashA = HashOf(hashed.a),
                                !.hashB = HashOf(hashed.b)]
    /\ UNCHANGED <<constRev, event, indexed>>
    /\ UNCHANGED driverVars

(***************************************************************************)
(* Dependency index: indexConfigMapRefs, indexSecretRefs                   *)
(* A pointer field is << >> when nil and <<name>> when it points to a      *)
(* source or reference of that name.                                       *)
(***************************************************************************)
Nil == << >>

RECURSIVE VolumeConfigMaps(_, _)
VolumeConfigMaps(volumes, configMapSet) ==
    IF volumes = << >> THEN configMapSet
    ELSE LET vol == Head(volumes)
         IN  VolumeConfigMaps(Tail(volumes),
                IF vol.ConfigMap # Nil
                THEN configMapSet \cup {vol.ConfigMap[1]} ELSE configMapSet)

RECURSIVE EnvConfigMaps(_, _)
EnvConfigMaps(envs, configMapSet) ==
    IF envs = << >> THEN configMapSet
    ELSE LET env == Head(envs)
         IN  EnvConfigMaps(Tail(envs),
                IF env.ValueFrom # Nil /\ env.ValueFrom[1].ConfigMapKeyRef # Nil
                THEN configMapSet \cup {env.ValueFrom[1].ConfigMapKeyRef[1]}
                ELSE configMapSet)

RECURSIVE EnvFromConfigMaps(_, _)
EnvFromConfigMaps(envFroms, configMapSet) ==
    IF envFroms = << >> THEN configMapSet
    ELSE LET envFrom == Head(envFroms)
         IN  EnvFromConfigMaps(Tail(envFroms),
                IF envFrom.ConfigMapRef # Nil
                THEN configMapSet \cup {envFrom.ConfigMapRef[1]} ELSE configMapSet)

RECURSIVE ContainerConfigMaps(_, _)
ContainerConfigMaps(containers, configMapSet) ==
    IF containers = << >> THEN configMapSet
    ELSE LET container == Head(containers)
         IN  ContainerConfigMaps(Tail(containers),
                EnvFromConfigMaps(container.EnvFrom,
                    EnvConfigMaps(container.Env, configMapSet)))

\* the configMapSet map of indexConfigMapRefs after its three loops
indexConfigMapRefsSet(deployment) ==
    ContainerConfigMaps(deployment.InitContainers,
        ContainerConfigMaps(deployment.Containers,
            VolumeConfigMaps(deployment.Volumes, {})))

RECURSIVE VolumeSecrets(_, _)
VolumeSecrets(volumes, secretSet) ==
    IF volumes = << >> THEN secretSet
    ELSE LET vol == Head(volumes)
         IN  VolumeSecrets(Tail(volumes),
                IF vol.Secret # Nil THEN secretSet \cup {vol.Secret[1]} ELSE secretSet)

RECURSIVE EnvSecrets(_, _)
EnvSecrets(envs, secretSet) ==
    IF envs = << >> THEN secretSet
    ELSE LET env == Head(envs)
         IN  EnvSecrets(Tail(envs),
                IF env.ValueFrom # Nil /\ env.ValueFrom[1].SecretKeyRef # Nil
                THEN secretSet \cup {env.ValueFrom[1].SecretKeyRef[1]}
                ELSE secretSet)

RECURSIVE EnvFromSecrets(_, _)
EnvFromSecrets(envFroms, secretSet) ==
    IF envFroms = << >> THEN secretSet
    ELSE LET envFrom == Head(envFroms)
         IN  EnvFromSecrets(Tail(envFroms),
                IF envFrom.SecretRef # Nil
                THEN secretSet \cup {envFrom.SecretRef[1]} ELSE secretSet)

RECURSIVE ContainerSecrets(_, _)
ContainerSecrets(containers, secretSet) ==
    IF containers = << >> THEN secretSet
    ELSE LET container == Head(containers)
         IN  ContainerSecrets(Tail(containers),
                EnvFromSecrets(container.EnvFrom,
                    EnvSecrets(container.Env, secretSet)))

\* the loop over Spec.InitContainers is left out
indexSecretRefsSetContainersOnly(deployment) ==
    ContainerSecrets(deployment.Containers, VolumeSecrets(deployment.Volumes, {}))

\* the secretSet map of indexSecretRefs after its three loops
indexSecretRefsSet(deployment) ==
    ContainerSecrets(deployment.InitContainers,
        ContainerSecrets(deployment.Containers,
            VolumeSecrets(deployment.Volumes, {})))

\* the slices a range over the keys of a set may build: each key once
SetOrders(set) ==
    {o \in [1..Cardinality(set) -> set] : \A i, j \in DOMAIN o : i # j => o[i] # o[j]}

\* the slices indexConfigMapRefs may return
indexConfigMapRefs(deployment) == SetOrders(indexConfigMapRefsSet(deployment))

\* the slices indexSecretRefs may return
indexSecretRefs(deployment) == SetOrders(indexSecretRefsSet(deployment))

\* the field indexer applies the index function registered under indexKey
IndexDeployment ==
    /\ indexed.state = "pending"
    /\ \E refs \in (IF indexed.indexKey = ConfigMapIndexKey
                    THEN indexConfigMapRefs(indexed.deployment)
                    ELSE indexSecretRefs(indexed.deployment)) :
        indexed' = [indexed EXCEPT !.state = "done", !.refs = refs]
    /\ UNCHANGED <<constRev, event, hashed>>
    /\ UNCHANGED driverVars

(***************************************************************************)
(* Inputs of the index                                                     *)
(***************************************************************************)
MaxRefs == 3

ConfigMapNames == {"n1", "n2", "n3"}
SecretNames == {"n1", "n2"}

VolumeSources ==
    {[ConfigMap |-> Nil, Secret |-> Nil]}
    \cup {[ConfigMap |-> <<n>>, Secret |-> Nil] : n \in ConfigMapNames}
    \cup {[ConfigMap |-> Nil, Secret |-> <<n>>] : n \in SecretNames}

EnvVars ==
    {[ValueFrom |-> Nil]}
    \cup {[ValueFrom |-> <<[ConfigMapKeyRef |-> <<n>>, SecretKeyRef |-> Nil]>>] :
            n \in ConfigMapNames}
    \cup {[ValueFrom |-> <<[ConfigMapKeyRef |-> Nil, SecretKeyRef |-> <<n>>]>>] :
            n \in SecretNames}

EnvFromSources ==
    {[ConfigMapRef |-> <<n>>, SecretRef |-> Nil] : n \in ConfigMapNames}
    \cup {[ConfigMapRef |-> Nil, SecretRef |-> <<n>>] : n \in SecretNames}

\* how many volumes, env and envFrom entries of the container, and env and
\* envFrom entries of the init container, a workload has
Shapes ==
    {t \in [1..5 -> 0..MaxRefs] : t[1] + t[2] + t[3] + t[4] + t[5] <= MaxRefs}

\* one container, and an init container when it has entries
MakePodSpec(v, e, f, ie, if) ==
    [Volumes |-> v,
     Containers |-> <<[Env |-> e, EnvFrom |-> f]>>,
     InitContainers |->
        IF ie = << >> /\ if = << >> THEN << >> ELSE <<[Env |-> ie, EnvFrom |-> if]>>]

(***************************************************************************)
(* Reconciliation driver: ConfigMapReconciler and SecretReconciler         *)
(***************************************************************************)
MaxClock == 2
MaxEdits == 1
MaxEvents == 1
TicksPerSecond == 2

DeploymentNames == {"d1", "d2", "d3"}

OtherAnnotation == "example.io/owner"
OtherValue == <<111, 112, 115>>          \* "ops"
EditedValue == <<100, 101, 118>>         \* "dev"

NamespaceOf(d) == IF d = "d3" THEN "other" ELSE "default"

EnvConfigMap(n) == [ValueFrom |-> <<[ConfigMapKeyRef |-> <<n>>, SecretKeyRef |-> Nil]>>]
EnvSecret(n) == [ValueFrom |-> <<[ConfigMapKeyRef |-> Nil, SecretKeyRef |-> <<n>>]>>]

\* d1 is test-app of the example manifest, with a bulk import of the same config
\* map; d2 mounts the config map and is test-app-secret of test_secret.yaml; d3
\* lives in another namespace
PodSpecOf(d) ==
    IF d = "d1" THEN
        MakePodSpec(<< >>, <<EnvConfigMap("n1"), EnvConfigMap("n1")>>,
                    <<[ConfigMapRef |-> <<"n1">>, SecretRef |-> Nil]>>, << >>, << >>)
    ELSE IF d = "d2" THEN
        MakePodSpec(<<[ConfigMap |-> <<"n1">>, Secret |-> Nil]>>,
                    <<EnvSecret("n1"), EnvSecret("n1")>>,
                    <<[ConfigMapRef |-> Nil, SecretRef |-> <<"n1">>]>>, << >>, << >>)
    ELSE
        MakePodSpec(<<[ConfigMap |-> Nil, Secret |-> <<"n1">>]>>, << >>,
                    <<[ConfigMapRef |-> <<"n1">>, SecretRef |-> Nil]>>, << >>, << >>)

Request(namespace, name) == [Namespace |-> namespace, Name |-> name]

Requests == {Request("default", "n1")}

\* errors of the API client
ErrNotFound == [Reason |-> "NotFound"]
ErrTimeout == [Reason |-> "Timeout"]
ErrConflict == [Reason |-> "Conflict"]

\* errors.IsNotFound(err)
IsNotFound(err) == err.Reason = "NotFound"

\* a clock text that runs backwards
TimeFormatCountingDown(now) == <<57 - (now \div TicksPerSecond)>>

\* time.Now().Format(time.RFC3339): whole seconds, as text
TimeFormat(now) == <<48 + (now \div TicksPerSecond)>>

\* client.MergeFrom(original) applied to modified: the JSON merge patch, the
\* fields of modified that differ from original
CreateMergePatch(original, modified) ==
    [Replicas |-> IF modified.Replicas # original.Replicas
                  THEN <<modified.Replicas>> ELSE Nil,
     Annotations |->
        [n \in {x \in DOMAIN modified.Annotations :
                    x \notin DOMAIN original.Annotations
                    \/ original.Annotations[x] # modified.Annotations[x]} |->
            modified.Annotations[n]],
     Removed |-> DOMAIN original.Annotations \ DOMAIN modified.Annotations]

\* the API server merges a patch into the deployment it holds
ApplyMergePatch(current, patch) ==
    [current EXCEPT
        !.Replicas = IF patch.Replicas # Nil THEN patch.Replicas[1] ELSE @,
        !.Annotations =
            [n \in (DOMAIN current.Annotations \cup DOMAIN patch.Annotations)
                    \ patch.Removed |->
                IF n \in DOMAIN patch.Annotations THEN patch.Annotations[n]
                ELSE current.Annotations[n]]]

\* client.MergeFromWithOptimisticLock: the patch carries the resourceVersion of
\* the listed copy and is refused when the stored deployment has changed since
PatchConflictsOptimisticLock(deployment, current) ==
    \/ current.Replicas # deployment.Replicas
    \/ current.Annotations # deployment.Annotations

\* client.MergeFrom: the patch carries no resourceVersion, so the API server
\* never refuses it for a write made since the listing
PatchConflicts(deployment, current) == FALSE

\* deployment with Spec.Template.Annotations[ReloadTimestampAnnotation] set; a
\* nil map and an empty map are the same function here
WithReloadTimestamp(deployment, now) ==
    [deployment EXCEPT !.Annotations =
        [n \in DOMAIN deployment.Annotations \cup {ReloadTimestampAnnotation} |->
            IF n = ReloadTimestampAnnotation THEN TimeFormat(now)
            ELSE deployment.Annotations[n]]]

\* r.Update(ctx, deployment): the listed copy, modified, replaces the stored one
triggerReloadByUpdate(deployment, now, current) ==
    [current EXCEPT
        !.Replicas = WithReloadTimestamp(deployment, now).Replicas,
        !.Annotations = WithReloadTimestamp(deployment, now).Annotations]

\* ConfigMapReconciler.triggerReload when the Patch call succeeds: what the API
\* server holds afterwards, current being what it held before
triggerReload(deployment, now, current) ==
    LET patch == CreateMergePatch(deployment, WithReloadTimestamp(deployment, now))
    IN  ApplyMergePatch(current, patch)

\* SecretReconciler.TriggerDeploymentReload when the Patch call succeeds
TriggerDeploymentReload(deployment, now, current) ==
    LET patch == CreateMergePatch(deployment, WithReloadTimestamp(deployment, now))
    IN  ApplyMergePatch(current, patch)

\* the zero value of the loop variable
NoDeployment == [Name |-> "", Replicas |-> 0, Annotations |-> << >>]

IdleReconcile ==
    [pc |-> "idle", req |-> Request("", ""), items |-> << >>, i |-> 0,
     deployment |-> NoDeployment, calls |-> << >>, err |-> Nil]

Call(op, target, err) == [op |-> op, target |-> target, err |-> err]

\* errors.IsNotFound is not asked: every error of r.Get is returned
AfterGetReturnsEveryError(r, err) ==
    LET called == Append(r.calls, Call("Get", r.req.Name, err))
    IN  IF err # Nil
        THEN [r EXCEPT !.pc = "done", !.calls = called, !.err = err]
        ELSE [r EXCEPT !.pc = "list", !.calls = called]

\* Reconcile after r.Get returned err (Nil when it succeeded)
AfterGet(r, err) ==
    LET called == Append(r.calls, Call("Get", r.req.Name, err))
    IN  IF err # Nil
        THEN IF IsNotFound(err[1])
             THEN [r EXCEPT !.pc = "done", !.calls = called, !.err = Nil]
             ELSE [r EXCEPT !.pc = "done", !.calls = called, !.err = err]
        ELSE [r EXCEPT !.pc = "list", !.calls = called]

\* the error of r.List is logged and dropped
AfterListErrorDropped(r, err, items) ==
    [r EXCEPT !.pc = IF items = << >> THEN "done" ELSE "patch",
              !.calls = Append(r.calls, Call("List", r.req.Name, err)),
              !.items = items, !.i = 1]

\* the listing holds one entry per reference instead of one per deployment:
\* every deployment comes twice
AfterListItemsTwice(r, err, items) ==
    LET called == Append(r.calls, Call("List", r.req.Name, err))
    IN  IF err # Nil
        THEN [r EXCEPT !.pc = "done", !.calls = called, !.err = err]
        ELSE [r EXCEPT !.pc = IF items = << >> THEN "done" ELSE "patch",
                       !.calls = called, !.items = items \o items, !.i = 1]

\* Reconcile after r.List returned err, or filled deployments.Items
AfterList(r, err, items) ==
    LET called == Append(r.calls, Call("List", r.req.Name, err))
    IN  IF err # Nil
        THEN [r EXCEPT !.pc = "done", !.calls = called, !.err = err]
        ELSE [r EXCEPT !.pc = IF items = << >> THEN "done" ELSE "patch",
                       !.calls = called, !.items = items, !.i = 1]

\* Reconcile after the reload of deployments.Items[i] returned err; deployment
\* is the loop variable as the reload left it
AfterReload(r, err, deployment) ==
    LET called == Append(r.calls, Call("Patch", r.items[r.i].Name, err))
    IN  IF err # Nil
        THEN [r EXCEPT !.pc = "done", !.calls = called, !.err = err,
                       !.deployment = deployment]
        ELSE [r EXCEPT !.pc = IF r.i = Len(r.items) THEN "done" ELSE "patch",
                       !.calls = called, !.i = r.i + 1, !.deployment = deployment]

\* the names under which the field index of a kind finds deployment d
IndexValues(kind, d) ==
    IF kind = "ConfigMap" THEN indexConfigMapRefsSet(PodSpecOf(d))
    ELSE indexSecretRefsSet(PodSpecOf(d))

\* a listing without client.InNamespace
ListMatchesAllNamespaces(kind, namespace, name) ==
    {d \in DeploymentNames : deployments[d].Exists /\ name \in IndexValues(kind, d)}

\* r.List(ctx, deployments, client.InNamespace(namespace),
\*        client.MatchingFields{indexKey: name}): the deployments it finds
ListMatches(kind, namespace, name) ==
    {d \in DeploymentNames : /\ deployments[d].Exists
                             /\ NamespaceOf(d) = namespace
                             /\ name \in IndexValues(kind, d)}

\* the copy of deployment d that a List returns
Listed(d) ==
    [Name |-> d, Replicas |-> deployments[d].Replicas,
     Annotations |-> deployments[d].Annotations]

\* the object that create and delete events carry, and the old object of the
\* update events: one key, no annotations
PlainObject == MakeObject([Data |-> [k \in {KeyA} |-> <<120>>], BinaryData |-> << >>],
                          MakeAnnotations(Absent, Absent))

\* the updates other clients make to a config map or secret, as <<old, new>>:
\* the value of the key changes, with tracking left on or switched off
DriverUpdates ==
    {<<PlainObject,
       MakeObject([Data |-> [k \in {KeyA} |-> <<61>>], BinaryData |-> << >>],
                  MakeAnnotations(watch, Absent))>> : watch \in {Absent, StrFalse}}

\* a predicate that lets every update through
UpdateAdmittedAlways(kind, old, new) == TRUE

\* WithEventFilter: the verdict of the UpdateFunc of the kind's predicate
UpdateAdmitted(kind, old, new) ==
    \E oldOrder \in ObjectOrders(old), newOrder \in ObjectOrders(new) :
        IF kind = "ConfigMap"
        THEN getConfigMapFilterUpdateFunc(old, new, oldOrder, newOrder)
        ELSE getSecretFilterUpdateFunc(old, new, oldOrder, newOrder, constRev)

\* WithEventFilter: the verdict of the CreateFunc of the kind's predicate
CreateAdmitted(kind, obj) ==
    IF kind = "ConfigMap" THEN getConfigMapFilterCreateFunc(obj)
    ELSE getSecretFilterCreateFunc(obj)

\* WithEventFilter: the verdict of the DeleteFunc of the kind's predicate
DeleteAdmitted(kind, obj) ==
    IF kind = "ConfigMap" THEN getConfigMapFilterDeleteFunc(obj)
    ELSE getSecretFilterDeleteFunc(obj)

\* another client updates an existing config map or secret: the update event
\* goes to the predicate, and the request is put on the queue when admitted
Enqueue(kind, req) ==
    /\ Len(events) < MaxEvents
    /\ req \in objects[kind]
    /\ \E update \in DriverUpdates :
        LET admitted == UpdateAdmitted(kind, update[1], update[2])
        IN  /\ events' = Append(events, [kind |-> kind, req |-> req, old |-> update[1],
                                         new |-> update[2], admitted |-> admitted])
            /\ queue' = [queue EXCEPT ![kind] = IF admitted THEN @ \cup {req} ELSE @]
    /\ UNCHANGED <<constRev, event, hashed, indexed, objects, deployments, rec, clock,
                   edits>>

\* another client creates a config map or secret that was deleted: the create
\* event goes to the predicate
CreateObject(kind, req) ==
    /\ req \notin objects[kind]
    /\ objects' = [objects EXCEPT ![kind] = @ \cup {req}]
    /\ queue' = [queue EXCEPT ![kind] =
                    IF CreateAdmitted(kind, PlainObject) THEN @ \cup {req} ELSE @]
    /\ UNCHANGED <<constRev, event, hashed, indexed, deployments, rec, clock,
                   edits, events>>

\* another client deletes a config map or secret: the delete event goes to the
\* predicate
DeleteObject(kind, req) ==
    /\ req \in objects[kind]
    /\ objects' = [objects EXCEPT ![kind] = @ \ {req}]
    /\ queue' = [queue EXCEPT ![kind] =
                    IF DeleteAdmitted(kind, PlainObject) THEN @ \cup {req} ELSE @]
    /\ UNCHANGED <<constRev, event, hashed, indexed, deployments, rec, clock,
                   edits, events>>

\* the deployment that other clients write to while the controller runs: the
\* one that both controllers reload
ExternalTargets == {"d2"}

\* another client deletes a deployment
DeleteDeployment(d) ==
    /\ edits < MaxEdits
    /\ deployments[d].Exists
    /\ deployments' = [deployments EXCEPT ![d].Exists = FALSE]
    /\ edits' = edits + 1
    /\ UNCHANGED <<constRev, event, hashed, indexed, objects, queue, rec, clock, events>>

\* another client scales a deployment
Scale(d) ==
    /\ edits < MaxEdits
    /\ deployments[d].Exists
    /\ deployments' = [deployments EXCEPT ![d].Replicas = @ + 1]
    /\ edits' = edits + 1
    /\ UNCHANGED <<constRev, event, hashed, indexed, objects, queue, rec, clock, events>>

\* another client annotates the pod template of a deployment
Annotate(d) ==
    /\ edits < MaxEdits
    /\ deployments[d].Exists
    /\ GetAnnotation(deployments[d], OtherAnnotation) # EditedValue
    /\ deployments' = [deployments EXCEPT ![d].Annotations =
            [n \in DOMAIN @ \cup {OtherAnnotation} |->
                IF n = OtherAnnotation THEN EditedValue ELSE @[n]]]
    /\ edits' = edits + 1
    /\ UNCHANGED <<constRev, event, hashed, indexed, objects, queue, rec, clock, events>>

Tick ==
    /\ clock < MaxClock
    /\ clock' = clock + 1
    /\ UNCHANGED <<constRev, event, hashed, indexed, objects, deployments, queue, rec,
                   edits, events>>

\* the controller takes a request off its queue and calls Reconcile
StartReconcile(kind) ==
    /\ rec[kind].pc = "idle"
    /\ \E req \in queue[kind] :
        /\ queue' = [queue EXCEPT ![kind] = @ \ {req}]
        /\ rec' = [rec EXCEPT ![kind] = [IdleReconcile EXCEPT !.pc = "get", !.req = req]]
    /\ UNCHANGED <<constRev, event, hashed, indexed, objects, deployments, clock, edits, events>>

\* r.Get(ctx, req.NamespacedName, obj): found, not found, or a failed call
ReconcileGet(kind) ==
    /\ rec[kind].pc = "get"
    /\ \E err \in {IF rec[kind].req \in objects[kind] THEN Nil ELSE <<ErrNotFound>>,
                   <<ErrTimeout>>} :
        rec' = [rec EXCEPT ![kind] = AfterGet(@, err)]
    /\ UNCHANGED <<constRev, event, hashed, indexed, objects, deployments, queue, clock,
                   edits, events>>

\* r.List: the matching deployments in some order, or a failed call
ReconcileList(kind) ==
    /\ rec[kind].pc = "list"
    /\ \/ rec' = [rec EXCEPT ![kind] = AfterList(@, <<ErrTimeout>>, << >>)]
       \/ \E order \in SetOrders(ListMatches(kind, rec[kind].req.Namespace,
                                             rec[kind].req.Name)) :
            rec' = [rec EXCEPT ![kind] =
                        AfterList(@, Nil, [i \in DOMAIN order |-> Listed(order[i])])]
    /\ UNCHANGED <<constRev, event, hashed, indexed, objects, deployments, queue, clock,
                   edits, events>>

\* one turn of the loop over deployments.Items: the reload, whose Patch call
\* finds the deployment gone, fails, or succeeds and reads the stored deployment
\* back into the loop variable
ReconcileReload(kind) ==
    /\ rec[kind].pc = "patch"
    /\ LET deployment == rec[kind].items[rec[kind].i]
           current == deployments[deployment.Name]
           stored == IF kind = "ConfigMap"
                     THEN triggerReload(deployment, clock, current)
                     ELSE TriggerDeploymentReload(deployment, clock, current)
       IN  IF ~current.Exists
           THEN /\ rec' = [rec EXCEPT ![kind] =
                        AfterReload(@, <<ErrNotFound>>,
                                    WithReloadTimestamp(deployment, clock))]
                /\ UNCHANGED deployments
           ELSE IF PatchConflicts(deployment, current)
           THEN /\ rec' = [rec EXCEPT ![kind] =
                        AfterReload(@, <<ErrConflict>>,
                                    WithReloadTimestamp(deployment, clock))]
                /\ UNCHANGED deployments
           ELSE \/ /\ deployments' = [deployments EXCEPT ![deployment.Name] = stored]
                   /\ rec' = [rec EXCEPT ![kind] =
                        AfterReload(@, Nil,
                                    [Name |-> deployment.Name,
                                     Replicas |-> stored.Replicas,
                                     Annotations |-> stored.Annotations])]
                \/ /\ rec' = [rec EXCEPT ![kind] =
                        AfterReload(@, <<ErrTimeout>>,
                                    WithReloadTimestamp(deployment, clock))]
                   /\ UNCHANGED deployments
    /\ UNCHANGED <<constRev, event, hashed, indexed, objects, queue, clock, edits, events>>

\* the controller forgets the request whatever Reconcile returned
FinishReconcileForget(kind) ==
    /\ rec[kind].pc = "done"
    /\ rec' = [rec EXCEPT ![kind] = IdleReconcile]
    /\ UNCHANGED <<constRev, event, hashed, indexed, objects, deployments, queue, clock,
                   edits, events>>

\* Reconcile has returned: the controller requeues the request on an error and
\* forgets it otherwise
FinishReconcile(kind) ==
    /\ rec[kind].pc = "done"
    /\ queue' = [queue EXCEPT ![kind] =
                    IF rec[kind].err # Nil THEN @ \cup {rec[kind].req} ELSE @]
    /\ rec' = [rec EXCEPT ![kind] = IdleReconcile]
    /\ UNCHANGED <<constRev, event, hashed, indexed, objects, deployments, clock, edits, events>>

InitDriver ==
    /\ objects = [kind \in Kinds |-> Requests]
    /\ deployments =
        [d \in DeploymentNames |->
            [Exists |-> TRUE, Replicas |-> 1,
             Annotations |-> IF d = "d2" THEN [n \in {OtherAnnotation} |-> OtherValue]
                             ELSE << >>]]
    /\ queue = [kind \in Kinds |-> {}]
    /\ rec = [kind \in Kinds |-> IdleReconcile]
    /\ clock = 0
    /\ edits = 0
    /\ events = << >>

(***************************************************************************)
(* Specifications                                                          *)
(***************************************************************************)
Init ==
    /\ constRev = 2
    /\ event = NoEvent
    /\ hashed = << >>
    /\ indexed = << >>
    /\ InitDriver

Next ==
    \/ \E kind \in Kinds, req \in Requests : Enqueue(kind, req)
    \/ \E kind \in Kinds, req \in Requests : CreateObject(kind, req)
    \/ \E kind \in Kinds, req \in Requests : DeleteObject(kind, req)
    \/ \E d \in ExternalTargets : DeleteDeployment(d)
    \/ \E d \in ExternalTargets : Scale(d)
    \/ \E d \in ExternalTargets : Annotate(d)
    \/ Tick
    \/ \E kind \in Kinds : StartReconcile(kind)
    \/ \E kind \in Kinds : ReconcileGet(kind)
    \/ \E kind \in Kinds : ReconcileList(kind)
    \/ \E kind \in Kinds : ReconcileReload(kind)
    \/ \E kind \in Kinds : FinishReconcile(kind)

Spec == Init /\ [][Next]_vars

\* r.Get returns without a failure: the object, or NotFound
GetAnswers(kind) == ReconcileGet(kind) /\ rec'[kind].err = Nil

\* r.List returns the deployments
ListAnswers(kind) == ReconcileList(kind) /\ rec'[kind].err = Nil

\* the Patch call of the reload of deployment d goes through
PatchAnswers(kind, d) ==
    /\ ReconcileReload(kind)
    /\ rec[kind].items[rec[kind].i].Name = d
    /\ rec'[kind].err = Nil

\* the controller keeps taking requests and Reconcile keeps running; failures
\* of the API client are transient: a call that is made again and again
\* succeeds in the end
Fairness ==
    \A kind \in Kinds :
        /\ WF_vars(StartReconcile(kind))
        /\ WF_vars(ReconcileGet(kind))
        /\ WF_vars(ReconcileList(kind))
        /\ WF_vars(ReconcileReload(kind))
        /\ WF_vars(FinishReconcile(kind))
        /\ SF_vars(GetAnswers(kind))
        /\ SF_vars(ListAnswers(kind))
        /\ \A d \in DeploymentNames : SF_vars(PatchAnswers(kind, d))

SpecLive == Init /\ [][Next]_vars /\ Fairness

\* the log of one admitted update event of each kind
AdmittedEvents(order) ==
    [i \in DOMAIN order |->
        LET update == CHOOSE u \in DriverUpdates :
                        UpdateAdmitted(order[i], u[1], u[2])
        IN  [kind |-> order[i], req |-> Request("default", "n1"), old |-> update[1],
             new |-> update[2], admitted |-> TRUE]]

\* a config map and a secret of the same deployment have both been updated and
\* both requests wait; no other client writes while the two controllers run
InitConcurrent ==
    /\ constRev = 2
    /\ event = NoEvent
    /\ hashed = << >>
    /\ indexed = << >>
    /\ objects = [kind \in Kinds |-> Requests]
    /\ deployments =
        [d \in DeploymentNames |->
            [Exists |-> TRUE, Replicas |-> 1,
             Annotations |-> IF d = "d2" THEN [n \in {OtherAnnotation} |-> OtherValue]
                             ELSE << >>]]
    /\ queue = [kind \in Kinds |-> Requests]
    /\ rec = [kind \in Kinds |-> IdleReconcile]
    /\ clock = 0
    /\ edits = 0
    /\ \E order \in SetOrders(Kinds) : events = AdmittedEvents(order)

NextConcurrent ==
    \/ Tick
    \/ \E kind \in Kinds : StartReconcile(kind)
    \/ \E kind \in Kinds : ReconcileGet(kind)
    \/ \E kind \in Kinds : ReconcileList(kind)
    \/ \E kind \in Kinds : ReconcileReload(kind)
    \/ \E kind \in Kinds : FinishReconcile(kind)

SpecConcurrent == InitConcurrent /\ [][NextConcurrent]_vars

InitFilter ==
    /\ InitDriver
    /\ constRev \in {1, 2}
    /\ hashed = << >>
    /\ indexed = << >>
    /\ \E kind \in Kinds, c \in FilterContents, w \in WatchValues, k \in KeysValues :
        LET obj == MakeObject(c, MakeAnnotations(w, k))
        IN  \/ \E oc \in FilterContents, oa \in OldAnnotations :
                event = PendingEvent("update", kind, MakeObject(oc, oa), obj)
            \/ event = PendingEvent("create", kind, NoObject, obj)
            \/ event = PendingEvent("delete", kind, obj, NoObject)

NextFilter ==
    \/ UpdateEvent
    \/ CreateEvent
    \/ DeleteEvent

SpecFilter == InitFilter /\ [][NextFilter]_vars

\* two calls, each with its object, its keysToWatch slice and the map orders
\* its range loops see
InitHash ==
    /\ InitDriver
    /\ constRev = 2
    /\ event = NoEvent
    /\ indexed = << >>
    /\ \E ca \in Contents, cb \in Contents, ka \in HashKeyLists, kb \in HashKeyLists :
        \E oa \in ObjectOrders(ca), ob \in ObjectOrders(cb) :
            hashed = [a |-> [configmap |-> MakeObject(ca, << >>), keysToWatch |-> ka,
                             order |-> oa],
                      b |-> [configmap |-> MakeObject(cb, << >>), keysToWatch |-> kb,
                             order |-> ob],
                      state |-> "pending", hashA |-> Empty, hashB |-> Empty]

NextHash == ComputeHashes

SpecHash == InitHash /\ [][NextHash]_vars

InitIndex ==
    /\ InitDriver
    /\ constRev = 2
    /\ event = NoEvent
    /\ hashed = << >>
    /\ \E t \in Shapes, indexKey \in {ConfigMapIndexKey, SecretIndexKey} :
        \E v \in [1..t[1] -> VolumeSources],
           e \in [1..t[2] -> EnvVars], f \in [1..t[3] -> EnvFromSources],
           ie \in [1..t[4] -> EnvVars], if \in [1..t[5] -> EnvFromSources] :
            indexed = [deployment |-> MakePodSpec(v, e, f, ie, if),
                       indexKey |-> indexKey, state |-> "pending", refs |-> << >>]

NextIndex == IndexDeployment

SpecIndex == InitIndex /\ [][NextIndex]_vars

(***************************************************************************)
(* Properties of the change filter                                         *)
(***************************************************************************)
FilteredUpdate == event.state = "filtered" /\ event.type = "update"

\* the elements of a list
Range(l) == {l[i] : i \in DOMAIN l}

\* the watch annotation is absent or "true": tracked under every reading
TrackingOn(obj) ==
    \/ WatchAnnotation \notin DOMAIN obj.Annotations
    \/ obj.Annotations[WatchAnnotation] = StrTrue

\* the keys named by a non-empty keys-to-watch annotation, else the empty set
WatchedKeySet(obj) ==
    IF KeyWatchAnnotation \in DOMAIN obj.Annotations
       /\ obj.Annotations[KeyWatchAnnotation] # Empty
    THEN Range(StringsSplit(obj.Annotations[KeyWatchAnnotation]))
    ELSE {}

\* what an object holds under key k: its text value and its binary value, if any
Entry(obj, k) ==
    <<IF k \in DOMAIN obj.Data THEN <<obj.Data[k]>> ELSE << >>,
      IF k \in DOMAIN obj.BinaryData THEN <<obj.BinaryData[k]>> ELSE << >> >>

WatchedEntriesEqual(old, new) ==
    \A k \in WatchedKeySet(new) : Entry(old, k) = Entry(new, k)

\* C1 (a): an update that leaves every watched key's entry as it was is rejected
C1_UnwatchedChangeRejected ==
    (/\ FilteredUpdate
     /\ TrackingOn(event.new)
     /\ WatchedKeySet(event.new) # {}
     /\ WatchedEntriesEqual(event.old, event.new))
    => ~event.admitted

\* C1 (b): an update that changes, adds or removes a watched key's entry is admitted
C1_WatchedChangeAdmitted ==
    (/\ FilteredUpdate
     /\ TrackingOn(event.new)
     /\ WatchedKeySet(event.new) # {}
     /\ ~WatchedEntriesEqual(event.old, event.new))
    => event.admitted

\* C1: key scoping of the update filter: with tracking enabled and a non-empty
\* keys-to-watch list, a change confined to unwatched keys is rejected and a
\* change to a watched key is admitted, whatever the values
C1_KeyScoping == C1_UnwatchedChangeRejected /\ C1_WatchedChangeAdmitted

\* the fingerprints the filter of the event's kind compares
EventKeysToWatch ==
    IF event.kind = "ConfigMap" THEN parseKeysToWatchConfigMap(event.new)
    ELSE parseKeysToWatch(event.new)

SomeOrder(obj) == CHOOSE o \in ObjectOrders(obj) : TRUE

EventFingerprint(obj) ==
    IF event.kind = "ConfigMap"
    THEN GetConfigMapHash(obj, EventKeysToWatch, SomeOrder(obj)[1], SomeOrder(obj)[2])
    ELSE GetSecretHash(obj, EventKeysToWatch, SomeOrder(obj)[1], SomeOrder(obj)[2])

\* C2: tracking toggle: watch "false" on the new object rejects the update
\* whatever changed; with watch absent or "true" the verdict is the comparison
\* of the two fingerprints, for config maps and for secrets
C2_TrackingToggle ==
    FilteredUpdate =>
        /\ GetAnnotation(event.new, WatchAnnotation) = StrFalse => ~event.admitted
        /\ TrackingOn(event.new) =>
            (event.admitted <=>
                EventFingerprint(event.old) # EventFingerprint(event.new))

\* a secret update that changes content while watch is "false", and a config
\* map update that is admitted with the annotation absent
C2_Witness ==
    /\ FilteredUpdate
    /\ \/ /\ event.kind = "Secret"
          /\ GetAnnotation(event.new, WatchAnnotation) = StrFalse
          /\ event.old.Data # event.new.Data
          /\ ~event.admitted
       \/ /\ event.kind = "ConfigMap"
          /\ WatchAnnotation \notin DOMAIN event.new.Annotations
          /\ event.admitted

\* C3: no create event and no delete event is admitted, whatever the object
C3_CreateDeleteRejected ==
    (event.state = "filtered" /\ event.type \in {"create", "delete"})
        => ~event.admitted

\* a tracked object with data was created, or deleted, and the predicate ran
C3_Witness ==
    /\ event.state = "filtered"
    /\ \/ /\ event.type = "create"
          /\ TrackingOn(event.new)
          /\ event.new.Data # << >>
       \/ /\ event.type = "delete"
          /\ TrackingOn(event.old)
          /\ event.old.Data # << >>

(***************************************************************************)
(* Properties of the fingerprint                                           *)
(***************************************************************************)
\* the keys a call selects: those listed, or all of them when none is listed
SelectedKeys(in) ==
    IF in.keysToWatch = << >>
    THEN DOMAIN in.configmap.Data \cup DOMAIN in.configmap.BinaryData
    ELSE Range(in.keysToWatch)

\* the watched key/value pairs of a call, text and binary, as a set
WatchedPairs(in) ==
    {<<"text", k, in.configmap.Data[k]>> :
        k \in SelectedKeys(in) \cap DOMAIN in.configmap.Data}
    \cup {<<"binary", k, in.configmap.BinaryData[k]>> :
        k \in SelectedKeys(in) \cap DOMAIN in.configmap.BinaryData}

\* l and m list the same keys, each as often, in some order
IsPermutation(l, m) ==
    /\ Len(l) = Len(m)
    /\ \A k \in Range(l) \cup Range(m) :
        Cardinality({i \in DOMAIN l : l[i] = k}) = Cardinality({i \in DOMAIN m : m[i] = k})

\* C4: fingerprint determinism: two calls whose watched key/value pairs are the
\* same set give the same fingerprint, whatever the order the maps are walked in
\* and the order the keys are listed in
C4_FingerprintDeterminism ==
    (/\ hashed.state = "done"
     /\ IsPermutation(hashed.a.keysToWatch, hashed.b.keysToWatch)
     /\ WatchedPairs(hashed.a) = WatchedPairs(hashed.b))
    => hashed.hashA = hashed.hashB

\* two keys hashed by two calls that walk the map, or list the keys, in
\* different orders
C4_Witness ==
    /\ hashed.state = "done"
    /\ WatchedPairs(hashed.a) = WatchedPairs(hashed.b)
    /\ Cardinality(WatchedPairs(hashed.a)) = 2
    /\ \/ hashed.a.keysToWatch = << >> /\ hashed.b.keysToWatch = << >>
          /\ hashed.a.order # hashed.b.order
       \/ hashed.a.keysToWatch = <<KeyA, KeyB>> /\ hashed.b.keysToWatch = <<KeyB, KeyA>>

\* the keys whose value differs between two objects with the same keys
ChangedKeys(p, q) ==
    {k \in DOMAIN p.Data : p.Data[k] # q.Data[k]}
    \cup {k \in DOMAIN p.BinaryData : p.BinaryData[k] # q.BinaryData[k]}

\* the object of b is that of a with the value of one selected key changed
OneSelectedValueChanged ==
    /\ hashed.a.keysToWatch = hashed.b.keysToWatch
    /\ DOMAIN hashed.a.configmap.Data = DOMAIN hashed.b.configmap.Data
    /\ DOMAIN hashed.a.configmap.BinaryData = DOMAIN hashed.b.configmap.BinaryData
    /\ Cardinality(ChangedKeys(hashed.a.configmap, hashed.b.configmap)) = 1
    /\ ChangedKeys(hashed.a.configmap, hashed.b.configmap) \subseteq SelectedKeys(hashed.a)

CanonicalOf(in) ==
    CanonicalString(HashValues(in.configmap, in.keysToWatch, in.order[1], in.order[2]))

\* C5: fingerprint sensitivity: changing the value of one selected key, the keys
\* staying the same, changes the string that is hashed, and the fingerprint
C5_FingerprintSensitivity ==
    (hashed.state = "done" /\ OneSelectedValueChanged)
    => /\ CanonicalOf(hashed.a) # CanonicalOf(hashed.b)
       /\ hashed.hashA # hashed.hashB

\* a value that holds ";" and "=" replaced a plain one, next to a second key
C5_Witness ==
    /\ hashed.state = "done"
    /\ OneSelectedValueChanged
    /\ DOMAIN hashed.a.configmap.Data = Keys
    /\ hashed.a.configmap.Data[KeyA] = <<120>>
    /\ hashed.b.configmap.Data[KeyA] = <<120, 59, 98, 61, 120>>

(***************************************************************************)
(* Properties of the dependency index                                      *)
(***************************************************************************)
AllContainers(deployment) ==
    Range(deployment.Containers) \cup Range(deployment.InitContainers)

\* the config-map names a workload refers to, by any of the three ways
ReferencedConfigMaps(deployment) ==
    {v.ConfigMap[1] : v \in {x \in Range(deployment.Volumes) : x.ConfigMap # Nil}}
    \cup UNION {
        {e.ValueFrom[1].ConfigMapKeyRef[1] :
            e \in {x \in Range(c.Env) :
                    x.ValueFrom # Nil /\ x.ValueFrom[1].ConfigMapKeyRef # Nil}}
        \cup {f.ConfigMapRef[1] : f \in {x \in Range(c.EnvFrom) : x.ConfigMapRef # Nil}} :
        c \in AllContainers(deployment)}

\* the secret names a workload refers to, by any of the three ways
ReferencedSecrets(deployment) ==
    {v.Secret[1] : v \in {x \in Range(deployment.Volumes) : x.Secret # Nil}}
    \cup UNION {
        {e.ValueFrom[1].SecretKeyRef[1] :
            e \in {x \in Range(c.Env) :
                    x.ValueFrom # Nil /\ x.ValueFrom[1].SecretKeyRef # Nil}}
        \cup {f.SecretRef[1] : f \in {x \in Range(c.EnvFrom) : x.SecretRef # Nil}} :
        c \in AllContainers(deployment)}

\* C6: reference extraction: the slice an index function returns holds exactly
\* the names the workload refers to through a volume, a direct env entry or a
\* bulk env import of a container or init container, each name once
C6_ReferenceExtraction ==
    indexed.state = "done" =>
        /\ Range(indexed.refs) =
            IF indexed.indexKey = ConfigMapIndexKey
            THEN ReferencedConfigMaps(indexed.deployment)
            ELSE ReferencedSecrets(indexed.deployment)
        /\ Cardinality(Range(indexed.refs)) = Len(indexed.refs)

\* a volume, a direct env entry and a bulk import name three config maps; or
\* an init container's env and a volume name the same secret
C6_Witness ==
    /\ indexed.state = "done"
    /\ \/ /\ indexed.indexKey = ConfigMapIndexKey
          /\ indexed.deployment.Volumes = <<[ConfigMap |-> <<"n1">>, Secret |-> Nil]>>
          /\ Len(indexed.deployment.Containers[1].Env) = 1
          /\ Len(indexed.deployment.Containers[1].EnvFrom) = 1
          /\ Len(indexed.refs) = 3
       \/ /\ indexed.indexKey = SecretIndexKey
          /\ indexed.deployment.Volumes = <<[ConfigMap |-> Nil, Secret |-> <<"n2">>]>>
          /\ Len(indexed.deployment.InitContainers) = 1
          /\ Len(indexed.deployment.InitContainers[1].Env) = 1
          /\ indexed.refs = <<"n2">>

(***************************************************************************)
(* Properties of Reconcile                                                 *)
(***************************************************************************)
\* Reconcile of a kind has returned and the controller has not yet taken the
\* result
Returned(kind) == rec[kind].pc = "done"

\* the calls of one operation that Reconcile of a kind has made so far
CallsOf(kind, op) == {c \in Range(rec[kind].calls) : c.op = op}

\* the first call, the re-fetch, reported NotFound
RefetchNotFound(kind) ==
    /\ rec[kind].calls # << >>
    /\ rec[kind].calls[1] = Call("Get", rec[kind].req.Name, <<ErrNotFound>>)

\* C7: when the re-fetch of the changed object reports NotFound, Reconcile
\* returns at once and without an error: the index is not queried and no
\* workload is patched
C7_NotFoundIsNoOp ==
    \A kind \in Kinds :
        RefetchNotFound(kind) =>
            /\ Returned(kind)
            /\ rec[kind].err = Nil
            /\ CallsOf(kind, "List") = {}
            /\ CallsOf(kind, "Patch") = {}
            /\ Len(rec[kind].calls) = 1

\* the config map was deleted after its event was queued, and Reconcile of the
\* request has returned after a re-fetch that found nothing
C7_Witness ==
    /\ Request("default", "n1") \notin objects["ConfigMap"]
    /\ Returned("ConfigMap")
    /\ rec["ConfigMap"].req = Request("default", "n1")
    /\ RefetchNotFound("ConfigMap")
    /\ rec["ConfigMap"].err = Nil

\* C8: within one reconciliation whose listing returned dependents, the reload
\* is attempted on every one of them, also on those listed after a dependent
\* whose patch failed
C8_EveryDependentAttempted ==
    \A kind \in Kinds :
        Returned(kind) =>
            \A i \in DOMAIN rec[kind].items :
                \E c \in CallsOf(kind, "Patch") : c.target = rec[kind].items[i].Name

\* a failure that Reconcile does not keep to itself: any failed call except a
\* re-fetch that reported NotFound
Surfaced(c) == c.err # Nil /\ ~(c.op = "Get" /\ IsNotFound(c.err[1]))

\* C9: Reconcile returns an error exactly when a call failed with something
\* other than NotFound on the re-fetch; the error returned is that call's error
\* as it was; and after a failed listing no workload is patched
C9_ErrorPropagation ==
    \A kind \in Kinds :
        Returned(kind) =>
            LET calls == rec[kind].calls
            IN  /\ rec[kind].err # Nil <=> \E c \in Range(calls) : Surfaced(c)
                /\ rec[kind].err # Nil => rec[kind].err = calls[Len(calls)].err
                /\ (\E c \in CallsOf(kind, "List") : c.err # Nil) =>
                        CallsOf(kind, "Patch") = {}

\* Reconcile has returned the NotFound of a patch of a deployment that was
\* deleted after the listing: NotFound is kept back on the re-fetch only
C9_Witness ==
    \E kind \in Kinds :
        /\ Returned(kind)
        /\ rec[kind].calls # << >>
        /\ LET last == rec[kind].calls[Len(rec[kind].calls)]
           IN  /\ last.op = "Patch"
               /\ last.err = <<ErrNotFound>>
        /\ rec[kind].err = <<ErrNotFound>>

\* a turn of the loop of a kind in which the Patch call succeeded
PatchSucceeded(kind) ==
    /\ rec[kind].pc = "patch"
    /\ rec'[kind].calls =
        Append(rec[kind].calls, Call("Patch", rec[kind].items[rec[kind].i].Name, Nil))

\* every field of stored deployment d but the reload timestamp is as it was
OnlyReloadTimestampChanged(d) ==
    /\ deployments'[d].Exists = deployments[d].Exists
    /\ deployments'[d].Replicas = deployments[d].Replicas
    /\ DOMAIN deployments'[d].Annotations \ {ReloadTimestampAnnotation}
        = DOMAIN deployments[d].Annotations \ {ReloadTimestampAnnotation}
    /\ \A n \in DOMAIN deployments[d].Annotations \ {ReloadTimestampAnnotation} :
            deployments'[d].Annotations[n] = deployments[d].Annotations[n]

\* C10: a reload changes the reload timestamp annotation of the pod template
\* of the deployment it patches and nothing else: the stored deployment keeps
\* its other annotations and fields, a value another client wrote after the
\* listing included, the timestamp is set, and no other deployment changes
C10_MinimalPatch ==
    [][\A kind \in Kinds :
        PatchSucceeded(kind) =>
            LET d == rec[kind].items[rec[kind].i].Name
            IN  /\ OnlyReloadTimestampChanged(d)
                /\ ReloadTimestampAnnotation \in DOMAIN deployments'[d].Annotations
                /\ \A other \in DeploymentNames \ {d} :
                        deployments'[other] = deployments[other]]_vars

\* a patch of the secret controller succeeded on a deployment that another
\* client had scaled after the listing: the deployment read back differs in
\* Replicas from the listed copy, keeps its other annotation and has the
\* timestamp
C10_Witness ==
    /\ rec["Secret"].calls # << >>
    /\ rec["Secret"].calls[Len(rec["Secret"].calls)] = Call("Patch", "d2", Nil)
    /\ rec["Secret"].items[1].Replicas = 1
    /\ rec["Secret"].deployment.Replicas = 2
    /\ deployments["d2"].Replicas = 2
    /\ deployments["d2"].Annotations[OtherAnnotation] = OtherValue
    /\ ReloadTimestampAnnotation \in DOMAIN deployments["d2"].Annotations

\* the positions of the call log of a kind at which deployment d was patched
PatchesOf(kind, d) ==
    {j \in DOMAIN rec[kind].calls :
        rec[kind].calls[j].op = "Patch" /\ rec[kind].calls[j].target = d}

\* Reconcile of a kind has returned after a listing, and no call of it failed
Succeeded(kind) ==
    /\ Returned(kind)
    /\ CallsOf(kind, "List") # {}
    /\ \A c \in Range(rec[kind].calls) : c.err = Nil

\* deployment d is of the request's namespace and refers to the request's name
\* by a reference of the kind, in any of the three ways
IsDependent(kind, req, d) ==
    /\ NamespaceOf(d) = req.Namespace
    /\ req.Name \in (IF kind = "ConfigMap" THEN ReferencedConfigMaps(PodSpecOf(d))
                     ELSE ReferencedSecrets(PodSpecOf(d)))

\* the dependents of a request of a kind
Dependents(kind, req) == {d \in DeploymentNames : IsDependent(kind, req, d)}

\* C11: in a reconciliation in which the fetch, the listing and every patch
\* succeed, each listed deployment is patched exactly once, however many
\* references to the object it holds, and no other deployment is patched;
\* the listing holds each dependent that exists, once
C11_ExactlyOnePatch ==
    \A kind \in Kinds :
        Succeeded(kind) =>
            /\ \A i \in DOMAIN rec[kind].items :
                    Cardinality(PatchesOf(kind, rec[kind].items[i].Name)) = 1
            /\ \A c \in CallsOf(kind, "Patch") :
                    \E i \in DOMAIN rec[kind].items : rec[kind].items[i].Name = c.target
            /\ Cardinality(CallsOf(kind, "Patch")) = Len(rec[kind].items)
            /\ Len(rec[kind].calls) = Len(rec[kind].items) + 2
            /\ \A d \in Dependents(kind, rec[kind].req) :
                    deployments[d].Exists => PatchesOf(kind, d) # {}

\* the reconciliation of the secret n1 has succeeded: d2, which names the
\* secret in two env entries and a bulk import, is listed and patched once
C11_Witness ==
    /\ Succeeded("Secret")
    /\ Len(PodSpecOf("d2").Containers[1].Env) = 2
    /\ Len(PodSpecOf("d2").Containers[1].EnvFrom) = 1
    /\ Len(rec["Secret"].items) = 1
    /\ rec["Secret"].items[1].Name = "d2"
    /\ rec["Secret"].calls[3] = Call("Patch", "d2", Nil)

\* a request waits on the queue of a kind whose controller is free
Waiting(kind, req) == req \in queue[kind] /\ rec[kind].pc = "idle"

\* Reconcile of the request has returned without an error, with every listed
\* deployment patched (none is listed when the object is gone)
Propagated(kind, req) ==
    /\ Returned(kind)
    /\ rec[kind].req = req
    /\ rec[kind].err = Nil
    /\ \A i \in DOMAIN rec[kind].items :
            Call("Patch", rec[kind].items[i].Name, Nil) \in Range(rec[kind].calls)

\* a call of the API client fails in this step
CallFails(kind) ==
    /\ rec'[kind].calls # rec[kind].calls
    /\ rec'[kind].calls # << >>
    /\ rec'[kind].calls[Len(rec'[kind].calls)].err = <<ErrTimeout>>

\* C12 as stated: with requests redelivered after an error and every call of
\* the API client succeeding again and again (strong fairness of each call's
\* success), every request that an admitted event put on the queue reaches a
\* reconciliation that returns without an error and has patched every
\* deployment it listed
C12_EventualPropagationFairCalls ==
    \A kind \in Kinds, req \in Requests : Waiting(kind, req) ~> Propagated(kind, req)

\* C12: with requests redelivered after an error and failures transient, in
\* that from some time on no call of the API client fails, every request that
\* an admitted event put on the queue reaches a reconciliation that returns
\* without an error and has patched every deployment it listed
C12_EventualPropagation ==
    (<>[][\A kind \in Kinds : ~CallFails(kind)]_vars) =>
        (\A kind \in Kinds, req \in Requests :
            Waiting(kind, req) ~> Propagated(kind, req))

\* the one event of the config map has been reconciled a second time: the
\* listing holds d1 as an earlier attempt patched it and d2 as yet unpatched,
\* and this attempt has patched both
C12_Witness ==
    /\ Len(events) = 1
    /\ Propagated("ConfigMap", Request("default", "n1"))
    /\ Len(rec["ConfigMap"].items) = 2
    /\ \E i, j \in DOMAIN rec["ConfigMap"].items :
        /\ rec["ConfigMap"].items[i].Name = "d1"
        /\ ReloadTimestampAnnotation \in DOMAIN rec["ConfigMap"].items[i].Annotations
        /\ rec["ConfigMap"].items[j].Name = "d2"
        /\ ReloadTimestampAnnotation \notin DOMAIN rec["ConfigMap"].items[j].Annotations

\* the reload timestamp of a deployment record, Empty when it has none: Empty
\* is older than every timestamp
ReloadTimestamp(deployment) ==
    IF ReloadTimestampAnnotation \in DOMAIN deployment.Annotations
    THEN deployment.Annotations[ReloadTimestampAnnotation]
    ELSE Empty

\* timestamp a is not older than timestamp b: RFC3339 texts of one zone order
\* as their bytes do
NotOlder(a, b) == ~StrLess(a, b)

\* C13: a reload that is run again for the same event leaves the deployment
\* valid: each patch that succeeds, a first one or a repeated one, leaves a
\* reload timestamp, of whole seconds, that is not older than the one stored
\* before nor than the one in the listed copy, and changes no other field
C13_Idempotence ==
    [][\A kind \in Kinds :
        PatchSucceeded(kind) =>
            LET listed == rec[kind].items[rec[kind].i]
                d == listed.Name
            IN  /\ OnlyReloadTimestampChanged(d)
                /\ ReloadTimestamp(deployments'[d]) # Empty
                /\ NotOlder(ReloadTimestamp(deployments'[d]),
                            ReloadTimestamp(deployments[d]))
                /\ NotOlder(ReloadTimestamp(deployments'[d]), ReloadTimestamp(listed))
                /\ NotOlder(TimeFormat(clock), ReloadTimestamp(deployments'[d]))]_vars

\* the one event of the config map is reconciled a second time, a second
\* later: d1 was listed with the timestamp of the first run and now holds a
\* later one, its other fields as at the start
C13_Witness ==
    /\ Len(events) = 1
    /\ Call("Patch", "d1", Nil) \in Range(rec["ConfigMap"].calls)
    /\ \E i \in DOMAIN rec["ConfigMap"].items :
        /\ rec["ConfigMap"].items[i].Name = "d1"
        /\ ReloadTimestamp(rec["ConfigMap"].items[i]) = TimeFormat(0)
    /\ ReloadTimestamp(deployments["d1"]) = TimeFormat(TicksPerSecond)
    /\ deployments["d1"].Replicas = 1
    /\ DOMAIN deployments["d1"].Annotations = {ReloadTimestampAnnotation}

(***************************************************************************)
(* Properties of the filter's policy                                       *)
(***************************************************************************)
\* the keys-to-watch annotation of an object is absent or empty
NoKeysToWatch(obj) ==
    \/ KeyWatchAnnotation \notin DOMAIN obj.Annotations
    \/ obj.Annotations[KeyWatchAnnotation] = Empty

SameContent(old, new) == old.Data = new.Data /\ old.BinaryData = new.BinaryData

\* C14 (a): watching all keys, an update that changes no data is rejected
C14_MetadataOnlyRejected ==
    (/\ FilteredUpdate
     /\ TrackingOn(event.new)
     /\ NoKeysToWatch(event.new)
     /\ SameContent(event.old, event.new))
    => ~event.admitted

\* C14 (b): watching all keys, an update that changes, adds or removes the
\* value of any key, text or binary, is admitted
C14_DataChangeAdmitted ==
    (/\ FilteredUpdate
     /\ TrackingOn(event.new)
     /\ NoKeysToWatch(event.new)
     /\ ~SameContent(event.old, event.new))
    => event.admitted

\* C14: default watch-all: with tracking enabled and the keys-to-watch
\* annotation of the new object absent or empty, an update is admitted when
\* the value of any key changes or a key is added or removed, and rejected
\* when only annotations change
C14_DefaultWatchAll == C14_MetadataOnlyRejected /\ C14_DataChangeAdmitted

\* the old object of the event as it would be with the annotations of the new
WithAnnotationsOf(old, new) == [old EXCEPT !.Annotations = new.Annotations]

\* C15: the filter judges an update by the policy of the new object alone: the
\* verdict is the one it gives when the old object carries the new object's
\* annotations; an update that switches tracking off is rejected, and so is
\* one that leaves every key of the new keys-to-watch list as it was, whatever
\* the old object's annotations watched
C15_NewPolicyOnly ==
    FilteredUpdate =>
        /\ event.admitted <=>
            UpdateAdmitted(event.kind, WithAnnotationsOf(event.old, event.new), event.new)
        /\ GetAnnotation(event.new, WatchAnnotation) = StrFalse => ~event.admitted
        /\ (/\ TrackingOn(event.new)
            /\ WatchedKeySet(event.new) # {}
            /\ WatchedEntriesEqual(event.old, event.new)) => ~event.admitted

\* a secret whose old object had no annotations, so that every key was
\* watched, is updated to watch key a alone while only key b changes: rejected
C15_Witness ==
    /\ FilteredUpdate
    /\ event.kind = "Secret"
    /\ event.old.Annotations = << >>
    /\ WatchAnnotation \notin DOMAIN event.new.Annotations
    /\ GetAnnotation(event.new, KeyWatchAnnotation) = KeyA
    /\ Entry(event.old, KeyA) = Entry(event.new, KeyA)
    /\ Entry(event.old, KeyB) # Entry(event.new, KeyB)
    /\ ~event.admitted

(***************************************************************************)
(* Properties of concurrent reconciliations                                *)
(***************************************************************************)
\* deployment d as it was at the start, but for the reload timestamp
AsAtStart(d) ==
    /\ deployments[d].Exists
    /\ deployments[d].Replicas = 1
    /\ DOMAIN deployments[d].Annotations \ {ReloadTimestampAnnotation}
        = IF d = "d2" THEN {OtherAnnotation} ELSE {}
    /\ d = "d2" => deployments[d].Annotations[OtherAnnotation] = OtherValue

\* C16: reconciliations of a config map and of a secret that share a
\* deployment do not conflict, however their list and patch steps interleave:
\* no call of either is refused for a write of the other (a call fails by the
\* API client's own failure only), every patch that succeeds leaves its own
\* timestamp and changes nothing else, and at every time each deployment is
\* as at the start but for a reload timestamp that one of the patches set
C16_NoConflict ==
    /\ [](\A kind \in Kinds :
            \A c \in Range(rec[kind].calls) : c.err \in {Nil, <<ErrTimeout>>})
    /\ [](\A d \in DeploymentNames :
            /\ AsAtStart(d)
            /\ ReloadTimestamp(deployments[d]) \in
                    {Empty} \cup {TimeFormat(c) : c \in 0..clock})
    /\ [][\A kind \in Kinds :
            PatchSucceeded(kind) =>
                LET d == rec[kind].items[rec[kind].i].Name
                IN  /\ ReloadTimestamp(deployments'[d]) = TimeFormat(clock)
                    /\ OnlyReloadTimestampChanged(d)
                    /\ \A other \in DeploymentNames \ {d} :
                            deployments'[other] = deployments[other]]_vars

\* both controllers listed d2 before either had patched it, and both have
\* patched it since
C16_Witness ==
    /\ \A kind \in Kinds :
        /\ Call("Patch", "d2", Nil) \in Range(rec[kind].calls)
        /\ \E i \in DOMAIN rec[kind].items :
            /\ rec[kind].items[i].Name = "d2"
            /\ ReloadTimestamp(rec[kind].items[i]) = Empty
    /\ ReloadTimestamp(deployments["d2"]) # Empty

(***************************************************************************)
(* Properties of the path from an event to a patch                         *)
(***************************************************************************)
\* the fingerprint of obj under the keys-to-watch list of a logged event's new
\* object
LoggedFingerprint(e, obj) ==
    IF e.kind = "ConfigMap"
    THEN GetConfigMapHash(obj, parseKeysToWatchConfigMap(e.new),
                          SomeOrder(obj)[1], SomeOrder(obj)[2])
    ELSE GetSecretHash(obj, parseKeysToWatch(e.new),
                       SomeOrder(obj)[1], SomeOrder(obj)[2])

\* an update event of the log qualifies for a request of a kind: it is for
\* that object, its new object is tracked, and the watched-key fingerprints of
\* its old and new object differ
Qualifies(e, kind, req) ==
    /\ e.kind = kind
    /\ e.req = req
    /\ GetAnnotation(e.new, WatchAnnotation) # StrFalse
    /\ LoggedFingerprint(e, e.old) # LoggedFingerprint(e, e.new)

\* an admitted update event for the request of a kind is in the log
AdmittedFor(kind, req) ==
    \E e \in Range(events) : e.admitted /\ e.kind = kind /\ e.req = req

\* C17: no restart without a qualifying change: a request is queued or
\* reconciled, and so a deployment is patched, only after an update event of
\* the same kind, name and namespace that the filter admitted, and the filter
\* admits an update event only when its new object is tracked and its
\* watched-key fingerprint differs from the old object's; create and delete
\* events, redeliveries and failures queue nothing new
C17_NoRestartWithoutChange ==
    /\ [](\A kind \in Kinds :
            /\ \A req \in queue[kind] : AdmittedFor(kind, req)
            /\ rec[kind].pc # "idle" => AdmittedFor(kind, rec[kind].req)
            /\ CallsOf(kind, "Patch") # {} => AdmittedFor(kind, rec[kind].req))
    /\ [][events' # events =>
            /\ Len(events') = Len(events) + 1
            /\ \A i \in DOMAIN events : events'[i] = events[i]
            /\ LET e == events'[Len(events')]
               IN  e.admitted => Qualifies(e, e.kind, e.req)]_vars

\* the one update event, of the config map, was admitted; its request is
\* reconciled a second time after a failed attempt that had patched d1, and
\* d2 is patched; the secret was deleted meanwhile, which queued nothing
C17_Witness ==
    /\ Len(events) = 1
    /\ events[1].kind = "ConfigMap"
    /\ events[1].admitted
    /\ Call("Patch", "d2", Nil) \in Range(rec["ConfigMap"].calls)
    /\ \E i \in DOMAIN rec["ConfigMap"].items :
        /\ rec["ConfigMap"].items[i].Name = "d1"
        /\ ReloadTimestamp(rec["ConfigMap"].items[i]) # Empty
    /\ Request("default", "n1") \notin objects["Secret"]
    /\ queue["Secret"] = {}
    /\ rec["Secret"].pc = "idle"

\* C18: scope of propagation: a reconciliation for an object of a kind, a
\* name and a namespace lists and patches only deployments of that namespace
\* that refer to that name by a reference of that kind; a deployment of
\* another namespace, or one that refers only to an object of the other kind
\* of the same name, is not patched by it
C18_ScopeOfPropagation ==
    /\ \A kind \in Kinds :
        /\ \A c \in CallsOf(kind, "Patch") : IsDependent(kind, rec[kind].req, c.target)
        /\ \A i \in DOMAIN rec[kind].items :
                IsDependent(kind, rec[kind].req, rec[kind].items[i].Name)
    /\ \A d \in DeploymentNames :
        ReloadTimestamp(deployments[d]) # Empty =>
            \E kind \in Kinds : IsDependent(kind, Request("default", "n1"), d)

\* the secret default/n1 has been reconciled and d2 patched; d1, which refers
\* to the config map n1 but to no secret, and d3, which refers to a secret n1
\* of another namespace, hold no timestamp
C18_Witness ==
    /\ Succeeded("Secret")
    /\ rec["Secret"].req = Request("default", "n1")
    /\ Call("Patch", "d2", Nil) \in Range(rec["Secret"].calls)
    /\ "n1" \in ReferencedConfigMaps(PodSpecOf("d1"))
    /\ "n1" \notin ReferencedSecrets(PodSpecOf("d1"))
    /\ "n1" \in ReferencedSecrets(PodSpecOf("d3"))
    /\ NamespaceOf("d3") # "default"
    /\ ReloadTimestamp(deployments["d1"]) = Empty
    /\ ReloadTimestamp(deployments["d3"]) = Empty
    /\ ReloadTimestamp(deployments["d2"]) # Empty

(***************************************************************************)
(* Properties of parseWatch                                                *)
(***************************************************************************)
\* the parseWatch that the predicate of a kind calls
Watches(kind, obj) ==
    IF kind = "ConfigMap" THEN parseWatchConfigMap(obj) ELSE parseWatch(obj, constRev)

\* C19: an object is watched unless its watch annotation is "false": for
\* every other value (absent, empty, "true", any other text) parseWatch
\* returns true and the update filter decides by the fingerprints alone, for
\* config maps and for secrets
C19_WatchedUnlessFalse ==
    (FilteredUpdate /\ GetAnnotation(event.new, WatchAnnotation) # StrFalse) =>
        /\ Watches(event.kind, event.new)
        /\ event.admitted <=>
                EventFingerprint(event.old) # EventFingerprint(event.new)

=============================================================================
